---- MODULE Spec2Model ----
(***************************************************************************)
(* Model of the Rule class of lego-rule-engine (src/.../rule.ts): the      *)
(* configuration setters, the priority-tier grouping and the promise-based *)
(* recursive evaluation of a condition tree against an almanac.            *)
(*                                                                         *)
(* A JavaScript value that may be undefined is a sequence of length 0 or 1 *)
(* (<< >> is undefined, <<v>> is v).  Promise values true / false / null   *)
(* are the strings "true", "false", "null".                                *)
(***************************************************************************)
EXTENDS Integers, Sequences, FiniteSets, TLC

VARIABLES
    priority,     \* Rule.priority: a JavaScript number (see Num, NaN)
    conditions,   \* Rule.conditions: << >> or the node table of the root Condition
    event,        \* Rule.event
    engine,       \* Rule.engine
    listeners,    \* EventEmitter registrations: number of listeners per event name
    lastCall,     \* the last synchronous call on the Rule and how it ended
    run,          \* per evaluate() call: promises, cursors and the RuleResult
    evalCount     \* number of evaluate() calls made so far

vars == <<priority, conditions, event, engine, listeners, lastCall, run, evalCount>>

\* Bound of the model: the number of evaluate() calls made on the Rule.
MaxEvaluations == 2

Undefined == << >>
\* the node table of this.conditions
Tree == conditions[1]
Some(v) == <<v>>
Bool(b) == IF b THEN "true" ELSE "false"

(***************************************************************************)
(* Condition trees.  A tree is a table of nodes, node 1 being the root; a  *)
(* boolean node lists its children by index.  The Condition class is not   *)
(* part of rule.ts; rule.ts reads its fields all / any / operator /        *)
(* priority / fact / result / factResult and calls isBooleanOperator() and *)
(* evaluate().                                                             *)
(***************************************************************************)
Root == 1
Facts == {"a", "b", "c"}
FactValues == {"x", "y"}

LeafNode(f, v, p) ==
    [hasAll |-> FALSE, hasAny |-> FALSE, all |-> << >>, any |-> << >>,
     fact |-> Some(f), value |-> v, priority |-> p,
     result |-> "undefined", factResult |-> "undefined"]

AllNode(kids, p) ==
    [hasAll |-> TRUE, hasAny |-> FALSE, all |-> kids, any |-> << >>,
     fact |-> Undefined, value |-> "x", priority |-> p,
     result |-> "undefined", factResult |-> "undefined"]

AnyNode(kids, p) ==
    [hasAll |-> FALSE, hasAny |-> TRUE, all |-> << >>, any |-> kids,
     fact |-> Undefined, value |-> "x", priority |-> p,
     result |-> "undefined", factResult |-> "undefined"]

BothNode(allKids, anyKids) ==
    [hasAll |-> TRUE, hasAny |-> TRUE, all |-> allKids, any |-> anyKids,
     fact |-> Undefined, value |-> "x", priority |-> Undefined,
     result |-> "undefined", factResult |-> "undefined"]

\* leaves with priorities [3,1,2] under all
DefAll321 ==
    << AllNode(<<2, 3, 4>>, Undefined),
       LeafNode("a", "x", Some(3)), LeafNode("b", "x", Some(1)), LeafNode("c", "x", Some(2)) >>

\* three leaves under any; the second takes its priority from the engine
DefAny3 ==
    << AnyNode(<<2, 3, 4>>, Undefined),
       LeafNode("a", "x", Some(2)), LeafNode("b", "x", Undefined), LeafNode("c", "y", Some(3)) >>

\* a nested any with two tiers of its own inside an all
DefNested ==
    << AllNode(<<2, 5>>, Undefined),
       AnyNode(<<3, 4>>, Some(2)),
       LeafNode("a", "x", Some(2)), LeafNode("b", "y", Undefined),
       LeafNode("c", "x", Some(0)) >>

\* a nested all and a leaf that may share one tier
DefSameTier ==
    << AnyNode(<<2, 3>>, Undefined),
       AllNode(<<4>>, Undefined),
       LeafNode("a", "x", Undefined), LeafNode("b", "x", Some(1)) >>

\* an empty nested list
DefEmptyNested ==
    << AllNode(<<2, 3>>, Undefined), AnyNode(<< >>, Undefined), LeafNode("a", "x", Undefined) >>

\* an empty root list
DefEmptyRoot == << AnyNode(<< >>, Undefined) >>

\* empty lists under all: at the root, and nested
DefEmptyRootAll == << AllNode(<< >>, Undefined) >>
DefEmptyNestedAll == << AnyNode(<<2>>, Undefined), AllNode(<< >>, Undefined) >>

\* a root that has both keys, and one that has neither
DefBoth == << BothNode(<<2>>, <<3>>), LeafNode("a", "x", Undefined), LeafNode("b", "x", Undefined) >>
DefNeither == << LeafNode("a", "x", Undefined) >>

EvaluableDefinitions ==
    {DefAll321, DefAny3, DefNested, DefSameTier, DefEmptyNested, DefEmptyRoot,
     DefEmptyRootAll, DefEmptyNestedAll}

AllDefinitions == EvaluableDefinitions \cup {DefBoth, DefNeither}

\* Condition.operator as the Condition constructor sets it
Operator(c) == IF c.hasAny THEN Some("any") ELSE IF c.hasAll THEN Some("all") ELSE Undefined

\* Condition.isBooleanOperator()
IsBooleanOperator(c) == Operator(c) # Undefined

\* new Condition(def): the node table built from the definition, no annotations
NewCondition(def) ==
    [n \in DOMAIN def |-> [def[n] EXCEPT !.result = "undefined", !.factResult = "undefined"]]

(***************************************************************************)
(* The engine (fact registry) and the almanac (fact store).                *)
(***************************************************************************)
\* engine.getFact(name): the registered fact or undefined; .priority of a fact
EngineA ==
    [allowUndefinedFacts |-> TRUE,
     facts |-> [f \in Facts |-> IF f = "a" THEN Some([priority |-> 1])
                                ELSE IF f = "b" THEN Some([priority |-> 2])
                                ELSE Undefined]]

EngineB ==
    [allowUndefinedFacts |-> FALSE,
     facts |-> [f \in Facts |-> IF f = "a" THEN Some([priority |-> 3])
                                ELSE IF f = "b" THEN Some([priority |-> 1])
                                ELSE Some([priority |-> 2])]]

Engines == {EngineA, EngineB}

\* what resolving a fact gives: a value, the undefined-fact error, or another error
Outcomes == FactValues \cup {"UNDEFINED_FACT", "ERROR"}
Almanacs == [Facts -> Outcomes]
\* the almanacs that differ on the facts a tree refers to
ReferredFacts(tree) == {f \in Facts : \E n \in DOMAIN tree : tree[n].fact = Some(f)}
AlmanacsFor(tree) == {a \in Almanacs : \A f \in Facts \ ReferredFacts(tree) : a[f] = "x"}

GetFact(eng, name) == IF name = Undefined THEN Undefined ELSE eng.facts[name[1]]

(***************************************************************************)
(* prioritizeConditions (lines 138-163).                                   *)
(***************************************************************************)
\* !priority / (a || b): JavaScript truthiness of an optional number
Truthy(p) == p # Undefined /\ p[1] # 0

ExplicitOrDefault(eng, c) == IF Truthy(c.priority) THEN c.priority[1] ELSE 1
\* lines 142-147: the priority a condition is filed under
ConditionPriority(eng, c) ==
    IF Truthy(c.priority) THEN c.priority[1]
    ELSE LET fact == IF eng # Undefined THEN GetFact(eng[1], c.fact) ELSE Undefined
         IN  IF fact # Undefined /\ Truthy(Some(fact[1].priority))
             THEN fact[1].priority ELSE 1

\* lines 139-156: the reduce; sets[p] lists, in input order, the conditions filed under p
FactSets(eng, tree, conds) ==
    [p \in {ConditionPriority(eng, tree[conds[i]]) : i \in DOMAIN conds} |->
        SelectSeq(conds, LAMBDA c : ConditionPriority(eng, tree[c]) = p)]

\* Object.keys of an object whose keys are non-negative integers: ascending
RECURSIVE ObjectKeys(_)
ObjectKeys(keys) ==
    IF keys = {} THEN << >>
    ELSE LET k == CHOOSE x \in keys : \A y \in keys : x <= y
         IN  <<k>> \o ObjectKeys(keys \ {k})

WrongOrderCompare(a, b) == IF a > b THEN 1 ELSE 0 - 1
\* line 160: the comparator, highest priority first
Compare(a, b) == IF a > b THEN 0 - 1 ELSE 1

\* Array.prototype.sort under the comparator: insertion of each key in turn
RECURSIVE InsertKey(_, _)
InsertKey(sorted, k) ==
    IF sorted = << >> THEN <<k>>
    ELSE IF Compare(k, Head(sorted)) < 0 THEN <<k>> \o sorted
    ELSE <<Head(sorted)>> \o InsertKey(Tail(sorted), k)

KeepObjectKeyOrder(keys) == keys
RECURSIVE SortKeys(_)
SortKeys(keys) ==
    IF keys = << >> THEN << >>
    ELSE InsertKey(SortKeys(Tail(keys)), Head(keys))

\* lines 138-163: the tiers, each a sequence of node indices
PrioritizeConditions(eng, tree, conds) ==
    LET factSets == FactSets(eng, tree, conds)
        keys == SortKeys(ObjectKeys(DOMAIN factSets))
    IN  [i \in DOMAIN keys |-> factSets[keys[i]]]

(***************************************************************************)
(* evaluate (lines 170-320).  One record per call: the promise of every    *)
(* evaluateCondition (node), the cursor chain of every prioritizeAndRun    *)
(* (list, indexed by the boolean node that owns the sibling list) and the  *)
(* RuleResult.  Every promise callback is one action.                      *)
(***************************************************************************)
Calls == {"c1", "c2"}

NoList ==
    [phase |-> "none", operator |-> "all", k |-> 0, val |-> "null",
     orderedSets |-> << >>, stop |-> {}, agg |-> << >>]

FreeRun ==
    [status |-> "free", almanac |-> [f \in Facts |-> "x"],
     node |-> << >>, nodeVal |-> << >>, nodeErr |-> << >>, list |-> << >>,
     ruleResult |-> [result |-> "undefined", setResultCalls |-> 0],
     emits |-> [success |-> 0, failure |-> 0],
     notified |-> [success |-> 0, failure |-> 0],
     threw |-> 0, error |-> "none"]

EmptySome(operator) == IF operator = "any" THEN "false" ELSE "true"
\* line 250: Promise.resolve(true) for an empty sibling list
EmptyListValue(operator) == "true"

\* lines 248-257: prioritizeAndRun up to the creation of the cursor chain
PrioritizeAndRun(conds, operator) ==
    IF Len(conds) = 0
    THEN [NoList EXCEPT !.phase = "done", !.operator = operator,
                        !.val = EmptyListValue(operator)]
    ELSE LET orderedSets == PrioritizeConditions(engine, Tree, conds)
         IN  [phase |-> "ready", operator |-> operator, k |-> 1, val |-> "null",
              orderedSets |-> orderedSets, stop |-> {},
              agg |-> [i \in DOMAIN orderedSets |-> "none"]]

\* line 183: the sibling list of a boolean condition
SubConditions(c) ==
    IF Operator(c) = Undefined THEN << >>
    ELSE IF Operator(c)[1] = "all" THEN c.all ELSE c.any

\* lines 182-189: evaluateCondition on a boolean condition, up to the .then
StartBoolean(r, c) ==
    [r EXCEPT !.node[c] = "pending",
              !.list[c] = PrioritizeAndRun(SubConditions(Tree[c]),
                                           IF Operator(Tree[c])[1] = "all"
                                           THEN "all" ELSE "any")]

\* lines 197-198: evaluateCondition on a leaf, the fact resolution is in flight
StartLeaf(r, c) == [r EXCEPT !.node[c] = "pending"]

\* line 230: conditions.map(evaluateCondition); this.engine!.operators throws a
\* TypeError at the first leaf when no engine is set
RECURSIVE EvaluateConditionsFrom(_, _, _)
EvaluateConditionsFrom(r, set, i) ==
    IF i > Len(set) THEN [r |-> r, threw |-> FALSE]
    ELSE IF IsBooleanOperator(Tree[set[i]])
         THEN EvaluateConditionsFrom(StartBoolean(r, set[i]), set, i + 1)
    ELSE IF engine = Undefined THEN [r |-> r, threw |-> TRUE]
    ELSE EvaluateConditionsFrom(StartLeaf(r, set[i]), set, i + 1)

\* the cursor after tier k returned v
Advance(l, v, how) ==
    [l EXCEPT !.val = v, !.agg[l.k] = how, !.k = l.k + 1,
              !.phase = IF l.k = Len(l.orderedSets) THEN "done" ELSE "ready"]

\* no callback of call s is pending any more
Quiescent(s) ==
    /\ \A n \in DOMAIN run[s].node : run[s].node[n] # "pending"
    /\ \A n \in DOMAIN run[s].list : run[s].list[n].phase \notin {"ready", "running"}
    /\ run[s].status # "running"

\* the calls of evaluate are made one after the other, MaxEvaluations of them
CanEvaluate == evalCount < MaxEvaluations /\ \A t \in Calls : Quiescent(t)

\* lines 170-174 and 311-319: the synchronous part of evaluate
StartEvaluate(s, almanac) ==
    /\ evalCount' = evalCount + 1
    /\ IF conditions = Undefined
       THEN /\ run' = [run EXCEPT ![s] = [FreeRun EXCEPT !.status = "threw",
                                                          !.error = "NO_CONDITIONS"]]
            /\ lastCall' = [op |-> "evaluate", error |-> "NO_CONDITIONS"]
       ELSE LET root == Tree[Root]
                rootList == IF root.hasAny THEN PrioritizeAndRun(root.any, "any")
                            ELSE PrioritizeAndRun(root.all, "all")
            IN  /\ run' = [run EXCEPT ![s] =
                     [FreeRun EXCEPT
                        !.status = "running", !.almanac = almanac,
                        !.node = [n \in DOMAIN Tree |-> "idle"],
                        !.nodeVal = [n \in DOMAIN Tree |-> "null"],
                        !.nodeErr = [n \in DOMAIN Tree |-> "none"],
                        !.list = [n \in DOMAIN Tree |->
                                    IF n = Root THEN rootList ELSE NoList]]]
                /\ lastCall' = [op |-> "evaluate", error |-> "none"]
    /\ UNCHANGED <<priority, conditions, event, engine, listeners>>

\* evaluate called once the call before it has finished
Evaluate(s, almanac) == CanEvaluate /\ StartEvaluate(s, almanac)

\* evaluate called a second time, with another almanac, while the first call runs
EvaluateOverlapping(s, almanac) ==
    /\ evalCount < MaxEvaluations
    /\ run[s].status = "free"
    /\ IF s = "c1" THEN run["c2"].status = "free"
       ELSE run["c1"].status = "running" /\ almanac # run["c1"].almanac
    /\ StartEvaluate(s, almanac)

\* line 259: the stop flag of tier k, false until the callback of tier k sets it
Stop(l) == l.k \in l.stop

StopFlagOnly(l) == Stop(l)
\* line 262: after the first set succeeds, don't fire off the remaining promises
SkipsTruthy(l) == (l.operator = "any" /\ l.val = "true") \/ Stop(l)

\* line 269: after the first set fails, don't fire off the remaining promises
SkipsFalsey(l) == (l.operator = "all" /\ l.val = "false") \/ Stop(l)

\* lines 260-276: the callback chained on the cursor for tier k of list n
TierStep(s, n) ==
    LET l == run[s].list[n]
        set == l.orderedSets[l.k]
    IN  /\ n \in DOMAIN run[s].list
        /\ l.phase = "ready"
        /\ IF SkipsTruthy(l)
           THEN run' = [run EXCEPT ![s].list[n] =
                           [Advance(l, "true", "skipped") EXCEPT !.stop = @ \cup {l.k}]]
           ELSE IF SkipsFalsey(l)
           THEN run' = [run EXCEPT ![s].list[n] =
                           [Advance(l, "false", "skipped") EXCEPT !.stop = @ \cup {l.k}]]
           ELSE LET started == EvaluateConditionsFrom(run[s], set, 1)
                IN  run' = [run EXCEPT ![s] =
                        IF started.threw
                        THEN [started.r EXCEPT !.list[n].phase = "failed",
                                               !.list[n].agg[l.k] = "TYPE_ERROR"]
                        ELSE [started.r EXCEPT !.list[n].phase = "running"]]
        /\ UNCHANGED <<priority, conditions, event, engine, listeners, lastCall, evalCount>>

\* Condition.evaluate: the fact value compared with the condition's value
ConditionEvaluate(c, almanac) ==
    LET v == almanac[c.fact[1]]
    IN  IF v \in FactValues
        THEN [error |-> "none", leftHandSideValue |-> v, result |-> Bool(v = c.value)]
        ELSE [error |-> v, leftHandSideValue |-> "undefined", result |-> "undefined"]

SwallowsWhenAllowed(eng, code) == eng.allowUndefinedFacts
SwallowsUndefinedFact(eng, code) == code = "UNDEFINED_FACT"
\* line 207: the error the .catch turns into false
Swallows(eng, code) == eng.allowUndefinedFacts /\ code = "UNDEFINED_FACT"

AnnotatedAfterReset(tree, c, evaluationResult) ==
    [n \in DOMAIN tree |->
        IF n = c THEN [tree[n] EXCEPT !.factResult = evaluationResult.leftHandSideValue,
                                      !.result = evaluationResult.result]
        ELSE [tree[n] EXCEPT !.factResult = "undefined", !.result = "undefined"]]
\* lines 201-202: the annotations written on the leaf that was evaluated
Annotated(tree, c, evaluationResult) ==
    [tree EXCEPT ![c].factResult = evaluationResult.leftHandSideValue,
                 ![c].result = evaluationResult.result]

\* lines 199-209: the .then / .catch of a leaf whose fact resolution settled
LeafSettled(s, c) ==
    /\ c \in DOMAIN run[s].node
    /\ run[s].node[c] = "pending"
    /\ ~IsBooleanOperator(Tree[c])
    /\ LET evaluationResult == ConditionEvaluate(Tree[c], run[s].almanac)
       IN  IF evaluationResult.error = "none"
           THEN /\ conditions' = Some(Annotated(Tree, c, evaluationResult))
                /\ run' = [run EXCEPT ![s].node[c] = "resolved",
                                      ![s].nodeVal[c] = evaluationResult.result]
           ELSE IF Swallows(engine[1], evaluationResult.error)
           THEN /\ run' = [run EXCEPT ![s].node[c] = "resolved",
                                      ![s].nodeVal[c] = "false"]
                /\ UNCHANGED conditions
           ELSE /\ run' = [run EXCEPT ![s].node[c] = "rejected",
                                      ![s].nodeErr[c] = evaluationResult.error]
                /\ UNCHANGED conditions
    /\ UNCHANGED <<priority, event, engine, listeners, lastCall, evalCount>>

EveryForBoth(operator, conditionResults) ==
    \A i \in DOMAIN conditionResults : conditionResults[i] = "true"
\* lines 252-255 and 233: Array.prototype.every / some over result === true
ArrConditionMethod(operator, conditionResults) ==
    IF operator = "all"
    THEN \A i \in DOMAIN conditionResults : conditionResults[i] = "true"
    ELSE \E i \in DOMAIN conditionResults : conditionResults[i] = "true"

AllSettled(r, set) == \A i \in DOMAIN set : r.node[set[i]] \in {"resolved", "rejected"}
SomeResolved(r, set) == \E i \in DOMAIN set : r.node[set[i]] = "resolved"
\* line 230: Promise.all resolves once every member has
AllResolved(r, set) == \A i \in DOMAIN set : r.node[set[i]] = "resolved"

AnnotationResults(r, set) == [i \in DOMAIN set |-> Tree[set[i]].result]
\* lines 230-231: the values the promises of the tier resolved with
ConditionResults(r, set) == [i \in DOMAIN set |-> r.nodeVal[set[i]]]

\* lines 230-235: Promise.all of tier k resolved, the tier's aggregate
TierAggregate(s, n) ==
    LET l == run[s].list[n]
        set == l.orderedSets[l.k]
        conditionResults == ConditionResults(run[s], set)
    IN  /\ n \in DOMAIN run[s].list
        /\ l.phase = "running"
        /\ AllResolved(run[s], set)
        /\ run' = [run EXCEPT ![s].list[n] =
               LET v == Bool(ArrConditionMethod(l.operator, conditionResults))
               IN  Advance(l, v, v)]
        /\ UNCHANGED <<priority, conditions, event, engine, listeners, lastCall, evalCount>>

\* line 230: Promise.all rejects with a member's error; the rest of the chain is passed by
TierRejected(s, n) ==
    LET l == run[s].list[n]
        set == l.orderedSets[l.k]
    IN  /\ n \in DOMAIN run[s].list
        /\ l.phase = "running"
        /\ \E i \in DOMAIN set :
              /\ run[s].node[set[i]] = "rejected"
              /\ run' = [run EXCEPT ![s].list[n].phase = "failed",
                                    ![s].list[n].agg[l.k] = run[s].nodeErr[set[i]]]
        /\ UNCHANGED <<priority, conditions, event, engine, listeners, lastCall, evalCount>>

\* the error a failed list carries
ListError(l) == l.agg[l.k]

\* lines 191-195: the .then of a nested boolean condition
BooleanSettled(s, c) ==
    /\ c \in DOMAIN run[s].node
    /\ c # Root
    /\ run[s].node[c] = "pending"
    /\ IsBooleanOperator(Tree[c])
    /\ \/ /\ run[s].list[c].phase = "done"
          /\ LET passes == Bool(run[s].list[c].val = "true")
             IN  /\ conditions' = [conditions EXCEPT ![1][c].result = passes]
                 /\ run' = [run EXCEPT ![s].node[c] = "resolved",
                                       ![s].nodeVal[c] = passes]
       \/ /\ run[s].list[c].phase = "failed"
          /\ run' = [run EXCEPT ![s].node[c] = "rejected",
                                ![s].nodeErr[c] = ListError(run[s].list[c])]
          /\ UNCHANGED conditions
    /\ UNCHANGED <<priority, event, engine, listeners, lastCall, evalCount>>

AlwaysSuccess(result) == "success"
\* lines 306-307: the event name emitted
EventName(result) == IF result = "true" THEN "success" ELSE "failure"

ListenerErrorSwallowed(thrower) == "returned"
\* lines 306-308 and 312-318: an exception of a listener leaves emit and processResult,
\* and rejects the promise evaluate returned
AfterEmit(thrower) == IF thrower = 0 THEN "returned" ELSE "failed"

\* lines 303-309 and 312-318: processResult; emit calls the listeners of one
\* event name in turn and a listener that throws makes emit throw
ProcessResult(s) ==
    /\ run[s].status = "running"
    /\ run[s].list[Root].phase = "done"
    /\ LET result == run[s].list[Root].val
           name == EventName(result)
       IN  \E thrower \in 0 .. listeners[name] :
             run' = [run EXCEPT
                ![s].ruleResult = [result |-> result,
                                   setResultCalls |-> @.setResultCalls + 1],
                ![s].emits[name] = @ + 1,
                ![s].notified[name] = @ + (IF thrower = 0 THEN listeners[name] ELSE thrower),
                ![s].threw = thrower,
                ![s].status = AfterEmit(thrower),
                ![s].error = IF AfterEmit(thrower) = "returned" THEN "none"
                             ELSE "LISTENER_ERROR"]
    /\ UNCHANGED <<priority, conditions, event, engine, listeners, lastCall, evalCount>>

\* lines 312-318: the root aggregate rejected, so does the promise evaluate returned
EvaluateRejected(s) ==
    /\ run[s].status = "running"
    /\ run[s].list[Root].phase = "failed"
    /\ run' = [run EXCEPT ![s].status = "failed",
                          ![s].error = ListError(run[s].list[Root])]
    /\ UNCHANGED <<priority, conditions, event, engine, listeners, lastCall, evalCount>>

(***************************************************************************)
(* Configuration: constructor and setters (lines 31-108).  A JavaScript    *)
(* number is kept in tenths, so that 0.5 and 2.5 exist; a string is its    *)
(* sequence of characters.                                                 *)
(***************************************************************************)
Num(n) == [nan |-> FALSE, tenths |-> n * 10]
Tenths(t) == [nan |-> FALSE, tenths |-> t]
NaN == [nan |-> TRUE, tenths |-> 0]
NumberArg(num) == [type |-> "number", num |-> num, chars |-> << >>]
StringArg(chars) == [type |-> "string", num |-> NaN, chars |-> chars]

DigitChars == <<"0", "1", "2", "3", "4", "5", "6", "7", "8", "9">>
IsDigit(ch) == \E i \in DOMAIN DigitChars : DigitChars[i] = ch
DigitValue(ch) == (CHOOSE i \in DOMAIN DigitChars : DigitChars[i] = ch) - 1

RECURSIVE NatToChars(_)
NatToChars(n) ==
    IF n < 10 THEN <<DigitChars[n + 1]>>
    ELSE NatToChars(n \div 10) \o <<DigitChars[(n % 10) + 1]>>

\* String(number) for a number with at most one decimal
NumberToString(num) ==
    IF num.nan THEN <<"N", "a", "N">>
    ELSE LET abs == IF num.tenths < 0 THEN 0 - num.tenths ELSE num.tenths
         IN  (IF num.tenths < 0 THEN <<"-">> ELSE << >>)
             \o NatToChars(abs \div 10)
             \o (IF abs % 10 = 0 THEN << >> ELSE <<".", DigitChars[(abs % 10) + 1]>>)

\* the longest prefix of digits
RECURSIVE DigitPrefix(_)
DigitPrefix(chars) ==
    IF chars = << >> \/ ~IsDigit(Head(chars)) THEN << >>
    ELSE <<Head(chars)>> \o DigitPrefix(Tail(chars))

RECURSIVE DigitsValue(_, _)
DigitsValue(digits, acc) ==
    IF digits = << >> THEN acc
    ELSE DigitsValue(Tail(digits), acc * 10 + DigitValue(Head(digits)))

RECURSIVE SkipSpaces(_)
SkipSpaces(chars) ==
    IF chars # << >> /\ Head(chars) = " " THEN SkipSpaces(Tail(chars)) ELSE chars

\* parseInt(string, 10): optional blanks and sign, then digits up to the first other character
ParseIntChars(chars) ==
    LET trimmed == SkipSpaces(chars)
        signed == trimmed # << >> /\ Head(trimmed) \in {"-", "+"}
        digits == DigitPrefix(IF signed THEN Tail(trimmed) ELSE trimmed)
    IN  IF digits = << >> THEN NaN
        ELSE IF signed /\ Head(trimmed) = "-" THEN Num(0 - DigitsValue(digits, 0))
        ELSE Num(DigitsValue(digits, 0))

\* line 61: parseInt(priority as string, 10)
ParseInt(arg) ==
    ParseIntChars(IF arg.type = "number" THEN NumberToString(arg.num) ELSE arg.chars)

LessThanZero(num) == ~num.nan /\ num.tenths < 0
\* line 63: priority <= 0
LessOrEqualZero(num) == ~num.nan /\ num.tenths <= 0

\* (x || 1) at line 49: truthiness of the priority option
TruthyArg(arg) ==
    /\ arg # Undefined
    /\ IF arg[1].type = "number" THEN ~arg[1].num.nan /\ arg[1].num.tenths # 0
       ELSE arg[1].chars # << >>

PriorityArgs ==
    {NumberArg(Num(n)) : n \in {0 - 2, 0 - 1, 0, 1, 2, 3, 10}}
    \cup {NumberArg(Tenths(t)) : t \in {0 - 5, 5, 25}}
    \cup {NumberArg(NaN)}
    \cup {StringArg(c) : c \in {<<"2">>, <<"1", "2">>, <<"-", "1">>, <<"0">>, <<" ", "7">>,
                                 <<"3", "x">>, <<"a", "b">>, << >>}}

\* lines 60-69
SetPriorityThrows(arg) == LessOrEqualZero(ParseInt(arg))

SetPriority(arg) ==
    /\ IF SetPriorityThrows(arg)
       THEN /\ lastCall' = [op |-> "setPriority", error |-> "Priority must be greater than zero",
                            arg |-> arg, before |-> priority]
            /\ UNCHANGED priority
       ELSE /\ priority' = ParseInt(arg)
            /\ lastCall' = [op |-> "setPriority", error |-> "none",
                            arg |-> arg, before |-> priority]
    /\ UNCHANGED <<conditions, event, engine, listeners, run, evalCount>>

\* line 76: the guard of setConditions
SetConditionsThrows(def) == ~def[Root].hasAll /\ ~def[Root].hasAny

\* lines 75-81
SetConditions(def) ==
    /\ IF SetConditionsThrows(def)
       THEN /\ lastCall' = [op |-> "setConditions",
                            error |-> "root must contain a single instance of all or any",
                            arg |-> def, before |-> conditions]
            /\ UNCHANGED conditions
       ELSE /\ conditions' = Some(NewCondition(def))
            /\ lastCall' = [op |-> "setConditions", error |-> "none",
                            arg |-> def, before |-> conditions]
    /\ UNCHANGED <<priority, event, engine, listeners, run, evalCount>>

EventArgs ==
    {Undefined,
     Some([type |-> Some("eligible"), params |-> Undefined]),
     Some([type |-> Some("eligible"), params |-> Some("p")]),
     Some([type |-> Undefined, params |-> Some("p")])}

\* lines 90-92
SetEventThrows(arg) == arg = Undefined \/ arg[1].type = Undefined

\* lines 93-96
StoredEvent(arg) == [type |-> arg[1].type, params |-> arg[1].params]

\* lines 89-98
SetEvent(arg) ==
    /\ IF SetEventThrows(arg)
       THEN /\ lastCall' = [op |-> "setEvent", error |-> "setEvent() requires event object",
                            arg |-> arg, before |-> event]
            /\ UNCHANGED event
       ELSE /\ event' = StoredEvent(arg)
            /\ lastCall' = [op |-> "setEvent", error |-> "none", arg |-> arg, before |-> event]
    /\ UNCHANGED <<priority, conditions, engine, listeners, run, evalCount>>

\* lines 105-108; the engine attaches a rule before it evaluates it
SetEngine(eng) ==
    /\ evalCount = 0
    /\ engine' = Some(eng)
    /\ lastCall' = [op |-> "setEngine", error |-> "none", arg |-> eng, before |-> engine]
    /\ UNCHANGED <<priority, conditions, event, listeners, run, evalCount>>

\* lines 31-54: the options a Rule is constructed from
Options(defs, priorityArgs, eventArgs, callbacks) ==
    [conditions : {Undefined} \cup {Some(d) : d \in defs},
     priority : {Undefined} \cup {Some(p) : p \in priorityArgs},
     event : eventArgs,
     onSuccess : callbacks, onFailure : callbacks]

\* line 49 and line 52: the defaults
PriorityOption(o) == IF TruthyArg(o.priority) THEN o.priority[1] ELSE NumberArg(Num(1))
EventOption(o) ==
    IF o.event # Undefined THEN o.event ELSE Some([type |-> Some("unknown"), params |-> Undefined])

ConstructorThrows(o) ==
    \/ o.conditions # Undefined /\ SetConditionsThrows(o.conditions[1])
    \/ SetPriorityThrows(PriorityOption(o))
    \/ SetEventThrows(EventOption(o))

\* lines 31-54: the Rule a successful constructor call leaves
Constructed(o) ==
    /\ ~ConstructorThrows(o)
    /\ conditions = IF o.conditions # Undefined THEN Some(NewCondition(o.conditions[1]))
                    ELSE Undefined
    /\ listeners = [success |-> IF o.onSuccess THEN 1 ELSE 0,
                    failure |-> IF o.onFailure THEN 1 ELSE 0]
    /\ priority = ParseInt(PriorityOption(o))
    /\ event = StoredEvent(EventOption(o))
    /\ engine = Undefined
    /\ lastCall = [op |-> "constructor", error |-> "none"]
    /\ run = [s \in Calls |-> FreeRun]
    /\ evalCount = 0

(***************************************************************************)
(* toJSON and the constructor's JSON.parse.  A JSON document is kept as    *)
(* its members; the text of the priority member is its characters.        *)
(***************************************************************************)
\* condition.toJSON(false): the definition shape of the tree, rendered recursively
ConditionToJSON(tree) ==
    [n \in DOMAIN tree |-> [tree[n] EXCEPT !.result = "undefined", !.factResult = "undefined"]]

\* lines 119-123: the props toJSON collects (null for conditions that are not set)
Props ==
    [conditions |-> IF conditions # Undefined THEN Some(ConditionToJSON(Tree)) ELSE Undefined,
     priority |-> priority,
     event |-> event]

JsonNull == <<"n", "u", "l", "l">>

\* JSON.stringify of a number: NaN has no JSON text and is written as null
JsonNumberText(num) == IF num.nan THEN JsonNull ELSE NumberToString(num)

\* JSON.parse of the text of a number or of null (null is read as an absent option)
JsonParseNumber(chars) ==
    IF chars = JsonNull THEN Undefined
    ELSE LET negative == Head(chars) = "-"
             body == IF negative THEN Tail(chars) ELSE chars
             whole == DigitPrefix(body)
             rest == SubSeq(body, Len(whole) + 1, Len(body))
             tenths == DigitsValue(whole, 0) * 10
                       + (IF Len(rest) >= 2 THEN DigitValue(rest[2]) ELSE 0)
         IN  Some(NumberArg(Tenths(IF negative THEN 0 - tenths ELSE tenths)))

\* line 125: JSON.stringify(props); members that are undefined are left out
JsonStringify(props) ==
    [conditions |-> props.conditions,
     priority |-> JsonNumberText(props.priority),
     event |-> [type |-> props.event.type, params |-> props.event.params]]

\* lines 34-35: JSON.parse(options)
JsonParse(text) ==
    [conditions |-> text.conditions,
     priority |-> JsonParseNumber(text.priority),
     event |-> Some(text.event),
     onSuccess |-> FALSE, onFailure |-> FALSE]

\* lines 36-38: the structured value of toJSON(false) passed as the options
PropsAsOptions(props) ==
    [conditions |-> props.conditions,
     priority |-> Some(NumberArg(props.priority)),
     event |-> Some(props.event),
     onSuccess |-> FALSE, onFailure |-> FALSE]

\* lines 31-54: the fields of the Rule new Rule(o) builds
NewRule(o) ==
    IF ConstructorThrows(o)
    THEN [threw |-> TRUE, conditions |-> Undefined, priority |-> NaN,
          event |-> [type |-> Undefined, params |-> Undefined]]
    ELSE [threw |-> FALSE,
          conditions |-> IF o.conditions # Undefined THEN Some(NewCondition(o.conditions[1]))
                         ELSE Undefined,
          priority |-> ParseInt(PriorityOption(o)),
          event |-> StoredEvent(EventOption(o))]

\* lines 110-128, followed by new Rule(output): the round trip
ToJSON(stringify) ==
    /\ lastCall' = [op |-> "toJSON", error |-> "none", arg |-> stringify,
                    rebuilt |-> IF stringify THEN NewRule(JsonParse(JsonStringify(Props)))
                                ELSE NewRule(PropsAsOptions(Props))]
    /\ UNCHANGED <<priority, conditions, event, engine, listeners, run, evalCount>>

(***************************************************************************)
(* Specifications.  Spec: a Rule constructed from a definition, given an   *)
(* engine and evaluated, one call at a time.  SpecConfig: the constructor  *)
(* and the setters over every kind of argument.                            *)
(***************************************************************************)
\* the almanacs a call of evaluate is given
AlmanacChoices ==
    IF ~CanEvaluate THEN {}
    ELSE IF conditions = Undefined THEN AlmanacsFor(<< >>) ELSE AlmanacsFor(Tree)

Init ==
    \E o \in Options(EvaluableDefinitions, {}, {Undefined}, BOOLEAN) :
        o.onSuccess = o.onFailure /\ Constructed(o)

Next ==
    \/ \E eng \in Engines : SetEngine(eng)
    \/ \E almanac \in AlmanacChoices : Evaluate("c1", almanac)
    \/ \E s \in Calls : \E n \in DOMAIN run[s].node : TierStep(s, n)
    \/ \E s \in Calls : \E n \in DOMAIN run[s].node : LeafSettled(s, n)
    \/ \E s \in Calls : \E n \in DOMAIN run[s].node : TierAggregate(s, n)
    \/ \E s \in Calls : \E n \in DOMAIN run[s].node : TierRejected(s, n)
    \/ \E s \in Calls : \E n \in DOMAIN run[s].node : BooleanSettled(s, n)
    \/ \E s \in Calls : ProcessResult(s)
    \/ \E s \in Calls : EvaluateRejected(s)

Spec == Init /\ [][Next]_vars

InitConfig ==
    \E o \in Options(EvaluableDefinitions, PriorityArgs, EventArgs, {FALSE}) : Constructed(o)

NextConfig ==
    \/ \E arg \in PriorityArgs : SetPriority(arg)
    \/ \E def \in AllDefinitions : SetConditions(def)
    \/ \E arg \in EventArgs : SetEvent(arg)
    \/ \E eng \in Engines : SetEngine(eng)
    \/ \E stringify \in BOOLEAN : ToJSON(stringify)

SpecConfig == InitConfig /\ [][NextConfig]_vars

(***************************************************************************)
(* SpecPrioritize: prioritizeConditions applied to the sibling lists of up *)
(* to MaxSiblings conditions, with and without an engine.                  *)
(***************************************************************************)
MaxSiblings == 3

\* the siblings: leaves with and without a priority of their own, on a fact both
\* engines know and on one only EngineB knows, and nested boolean conditions
SiblingChoices ==
    {LeafNode("a", "x", p) : p \in {Undefined, Some(0), Some(2), Some(9), Some(10)}}
    \cup {LeafNode("c", "x", Undefined)}
    \cup {AnyNode(<< >>, p) : p \in {Undefined, Some(3)}}

SiblingLists == UNION {[1 .. k -> SiblingChoices] : k \in 0 .. MaxSiblings}

PrioritizeDefinitions ==
    {<<AllNode([i \in DOMAIN kids |-> i + 1], Undefined)>> \o kids : kids \in SiblingLists}

\* lines 138-163: rule.prioritizeConditions(conds) on the root's sibling list
PrioritizeConditionsCall ==
    /\ conditions # Undefined
    /\ LET conds == Tree[Root].all
       IN  lastCall' = [op |-> "prioritizeConditions", error |-> "none", arg |-> conds,
                        factSets |-> FactSets(engine, Tree, conds),
                        result |-> PrioritizeConditions(engine, Tree, conds)]
    /\ UNCHANGED <<priority, conditions, event, engine, listeners, run, evalCount>>

InitPrioritize ==
    \E def \in PrioritizeDefinitions :
        Constructed([conditions |-> Some(def), priority |-> Undefined, event |-> Undefined,
                     onSuccess |-> FALSE, onFailure |-> FALSE])

NextPrioritize ==
    \/ \E eng \in Engines : SetEngine(eng)
    \/ PrioritizeConditionsCall

SpecPrioritize == InitPrioritize /\ [][NextPrioritize]_vars

(***************************************************************************)
(* SpecOverlap: evaluate called twice on the same Rule, the second call    *)
(* made with another almanac while the first is still running.             *)
(***************************************************************************)
OverlapDefinitions == {DefAny3, DefNested, DefSameTier}

\* the almanacs of the two calls
OverlapAlmanacs ==
    IF conditions = Undefined \/ engine = Undefined \/ evalCount >= MaxEvaluations THEN {}
    ELSE {a \in AlmanacsFor(Tree) :
             a["a"] # "UNDEFINED_FACT" /\ a["b"] # "ERROR" /\ a["c"] \in FactValues}

InitOverlap ==
    \E o \in Options(OverlapDefinitions, {}, {Undefined}, {TRUE}) : Constructed(o)

NextOverlap ==
    \/ \E eng \in Engines : SetEngine(eng)
    \/ \E s \in Calls : \E almanac \in OverlapAlmanacs : EvaluateOverlapping(s, almanac)
    \/ \E s \in Calls : \E n \in DOMAIN run[s].node : TierStep(s, n)
    \/ \E s \in Calls : \E n \in DOMAIN run[s].node : LeafSettled(s, n)
    \/ \E s \in Calls : \E n \in DOMAIN run[s].node : TierAggregate(s, n)
    \/ \E s \in Calls : \E n \in DOMAIN run[s].node : TierRejected(s, n)
    \/ \E s \in Calls : \E n \in DOMAIN run[s].node : BooleanSettled(s, n)
    \/ \E s \in Calls : ProcessResult(s)
    \/ \E s \in Calls : EvaluateRejected(s)

SpecOverlap == InitOverlap /\ [][NextOverlap]_vars

(***************************************************************************)
(* Properties of the tiered evaluation.                                    *)
(***************************************************************************)
\* the calls whose evaluate got as far as building its promises
Evaluating == {s \in Calls : run[s].status \in {"running", "returned", "failed"}}

\* the boolean nodes of call s whose sibling list prioritizeAndRun was called on
ListsOf(s) == {n \in DOMAIN run[s].list : run[s].list[n].phase # "none"}

\* the sibling list prioritizeAndRun was called on for node n
Siblings(n) ==
    IF n = Root THEN (IF Tree[Root].hasAny THEN Tree[Root].any ELSE Tree[Root].all)
    ELSE SubConditions(Tree[n])

SiblingSet(n) == {Siblings(n)[i] : i \in DOMAIN Siblings(n)}

\* evaluateCondition was called on node c in call s
Started(s, c) == run[s].node[c] # "idle"

\* the effective priority of node c
Effective(c) == ConditionPriority(engine, Tree[c])

\* the tiers of list n whose aggregate was computed and is v
TiersWithAggregate(s, n, v) ==
    {k \in DOMAIN run[s].list[n].agg : run[s].list[n].agg[k] = v}

\* the siblings of list n filed under a lower priority than tier k
LowerTiers(s, n, k) ==
    {c \in SiblingSet(n) : Effective(c) < Effective(run[s].list[n].orderedSets[k][1])}

\* C1: under all, the tiers of a sibling list run in strictly descending order of
\* effective priority (a sibling is started only after every sibling of higher
\* priority has resolved), and once a tier's aggregate is false no condition of a
\* lower-priority tier is ever started and the list's aggregate is false.
C1_AllDescendingAndShortCircuit ==
    \A s \in Evaluating : \A n \in ListsOf(s) :
        run[s].list[n].operator = "all" =>
            /\ \A a \in SiblingSet(n) : \A b \in SiblingSet(n) :
                  (Effective(a) > Effective(b) /\ Started(s, b))
                      => run[s].node[a] = "resolved"
            /\ \A k \in TiersWithAggregate(s, n, "false") :
                  /\ \A c \in LowerTiers(s, n, k) : ~Started(s, c)
                  /\ run[s].list[n].phase \in {"ready", "done"}
                  /\ run[s].list[n].val = "false"

\* the [3,1,2] rule returned false after its priority-3 tier alone was evaluated
C1_Witness ==
    /\ run["c1"].status = "returned"
    /\ Tree[Root].all = <<2, 3, 4>>
    /\ run["c1"].list[Root].orderedSets = << <<2>>, <<4>>, <<3>> >>
    /\ run["c1"].list[Root].agg = <<"false", "skipped", "skipped">>
    /\ run["c1"].node = <<"idle", "resolved", "idle", "idle">>
    /\ run["c1"].ruleResult.result = "false"

\* C2: under any, once a tier's aggregate is true no condition of a lower-priority
\* tier is ever started, every remaining tier step carries true unchanged, and the
\* list's aggregate is true.
C2_AnyShortCircuit ==
    \A s \in Evaluating : \A n \in ListsOf(s) :
        run[s].list[n].operator = "any" =>
            \A k \in TiersWithAggregate(s, n, "true") :
                /\ \A c \in LowerTiers(s, n, k) : ~Started(s, c)
                /\ \A j \in DOMAIN run[s].list[n].agg :
                      j > k => run[s].list[n].agg[j] \in {"none", "skipped"}
                /\ run[s].list[n].phase \in {"ready", "done"}
                /\ run[s].list[n].val = "true"

\* an any of three tiers returned true after its first tier, the two others passed by
C2_Witness ==
    /\ run["c1"].status = "returned"
    /\ Tree[Root].any = <<2, 3, 4>>
    /\ run["c1"].list[Root].orderedSets = << <<4>>, <<2>>, <<3>> >>
    /\ run["c1"].list[Root].agg = <<"true", "skipped", "skipped">>
    /\ run["c1"].node = <<"idle", "idle", "idle", "resolved">>
    /\ run["c1"].ruleResult.result = "true"

\* the nodes below boolean node n
RECURSIVE Descendants(_)
Descendants(n) ==
    LET kids == {SubConditions(Tree[n])[i] : i \in DOMAIN SubConditions(Tree[n])}
    IN  kids \cup UNION {Descendants(c) : c \in kids}

\* a callback of node d is still to come in call s
InFlight(s, d) ==
    \/ run[s].node[d] = "pending"
    \/ run[s].list[d].phase \in {"ready", "running"}

TierMembers(s, n, k) ==
    {run[s].list[n].orderedSets[k][i] : i \in DOMAIN run[s].list[n].orderedSets[k]}

\* C3: no condition of a later tier of a sibling list is started before every
\* condition of each earlier tier has resolved, nested boolean nodes and all their
\* evaluated descendants included, whatever the order of the fact resolutions; and a
\* tier's aggregate exists only once all members of the tier have resolved.
C3_TierBarrier ==
    \A s \in Evaluating : \A n \in ListsOf(s) :
        LET l == run[s].list[n]
        IN  /\ \A i \in DOMAIN l.orderedSets : \A j \in DOMAIN l.orderedSets :
                  (i < j /\ \E b \in TierMembers(s, n, j) : Started(s, b))
                      => \A a \in TierMembers(s, n, i) :
                            /\ run[s].node[a] = "resolved"
                            /\ \A d \in Descendants(a) : ~InFlight(s, d)
            /\ \A k \in DOMAIN l.agg :
                  l.agg[k] \in {"true", "false"}
                      => \A a \in TierMembers(s, n, k) : run[s].node[a] = "resolved"

\* the second tier of the root was started after the nested any of the first tier,
\* with both its leaves, had resolved
C3_Witness ==
    /\ run["c1"].status = "running"
    /\ Tree[Root].all = <<2, 5>>
    /\ run["c1"].list[Root].orderedSets = << <<2>>, <<5>> >>
    /\ run["c1"].list[2].orderedSets = << <<3, 4>> >>
    /\ run["c1"].node = <<"idle", "resolved", "resolved", "resolved", "pending">>

\* the value of node n when every child is evaluated, without tiers or short-circuit
RECURSIVE PlainValue(_, _, _)
PlainValue(tree, almanac, n) ==
    IF ~(tree[n].hasAll \/ tree[n].hasAny) THEN almanac[tree[n].fact[1]] = tree[n].value
    ELSE IF tree[n].hasAny
         THEN \E i \in DOMAIN tree[n].any : PlainValue(tree, almanac, tree[n].any[i])
    ELSE \A i \in DOMAIN tree[n].all : PlainValue(tree, almanac, tree[n].all[i])

NoResolutionFails(almanac) == \A f \in Facts : almanac[f] \in FactValues

NonEmptyLists(tree) ==
    \A n \in DOMAIN tree : IsBooleanOperator(tree[n]) => SubConditions(tree[n]) # << >>

\* C4: for a tree without empty sibling lists and an almanac on which no resolution
\* fails, the result set on the RuleResult is the plain recursive boolean value of
\* the tree, whatever the priorities; and with an engine set the call gets that far.
C4_ResultIsPlainValue ==
    \A s \in Evaluating :
        (NoResolutionFails(run[s].almanac) /\ NonEmptyLists(Tree)) =>
            /\ run[s].ruleResult.result # "undefined"
                  => run[s].ruleResult.result = Bool(PlainValue(Tree, run[s].almanac, Root))
            /\ (engine # Undefined /\ Quiescent(s))
                  => run[s].ruleResult.result # "undefined"

\* the nested rule returned true: its any was true by its second leaf only
C4_Witness ==
    /\ run["c1"].status = "returned"
    /\ Tree[Root].all = <<2, 5>>
    /\ run["c1"].almanac = [f \in Facts |-> IF f = "a" THEN "y" ELSE IF f = "b" THEN "y" ELSE "x"]
    /\ run["c1"].ruleResult.result = "true"
    /\ PlainValue(Tree, run["c1"].almanac, Root)

\* the leaves of call s that were started and whose fact resolves with outcome o
StartedLeaves(s, o) ==
    {c \in DOMAIN run[s].node :
        /\ ~IsBooleanOperator(Tree[c])
        /\ Started(s, c)
        /\ run[s].almanac[Tree[c].fact[1]] = o}

\* the tier of list n that sibling c is in
TierOf(s, n, c) == CHOOSE k \in DOMAIN run[s].list[n].orderedSets : c \in TierMembers(s, n, k)

\* C5: a leaf whose fact resolution fails with the undefined-fact error contributes
\* false to its tier when allowUndefinedFacts is true (an enclosing all is false) and
\* the call completes with a RuleResult when nothing else fails; when the flag is
\* false the call fails and no result is set.
C5_UndefinedFact ==
    \A s \in Evaluating :
        StartedLeaves(s, "UNDEFINED_FACT") # {} =>
            IF engine[1].allowUndefinedFacts
            THEN /\ \A c \in StartedLeaves(s, "UNDEFINED_FACT") :
                      /\ run[s].node[c] \in {"pending", "resolved"}
                      /\ run[s].node[c] = "resolved" => run[s].nodeVal[c] = "false"
                      /\ \A n \in ListsOf(s) :
                            (c \in SiblingSet(n) /\ run[s].list[n].operator = "all") =>
                                /\ run[s].list[n].agg[TierOf(s, n, c)] # "true"
                                /\ run[s].list[n].phase = "done" => run[s].list[n].val = "false"
                 /\ StartedLeaves(s, "ERROR") = {} =>
                      /\ run[s].status = "failed" => run[s].error = "LISTENER_ERROR"
                      /\ (Quiescent(s) /\ run[s].threw = 0) =>
                            /\ run[s].status = "returned"
                            /\ run[s].ruleResult.result \in {"true", "false"}
            ELSE /\ \A c \in StartedLeaves(s, "UNDEFINED_FACT") :
                      run[s].node[c] \in {"pending", "rejected"}
                 /\ run[s].status # "returned"
                 /\ run[s].ruleResult.result = "undefined"
                 /\ Quiescent(s) =>
                      /\ run[s].status = "failed"
                      /\ run[s].error \in {"UNDEFINED_FACT", "ERROR"}

\* with the flag set, the all of three leaves completed although its first fact is
\* undefined, the undefined leaf counting as false
C5_Witness ==
    /\ run["c1"].status = "returned"
    /\ Tree[Root].all = <<2, 3, 4>>
    /\ engine[1].allowUndefinedFacts
    /\ run["c1"].almanac["a"] = "UNDEFINED_FACT"
    /\ run["c1"].nodeVal[2] = "false"
    /\ run["c1"].ruleResult.result = "false"

\* the leaves of call s that were started and whose evaluation fails with an error
\* that is not a tolerated undefined-fact error
FatalLeaves(s) ==
    StartedLeaves(s, "ERROR")
    \cup (IF engine # Undefined /\ engine[1].allowUndefinedFacts THEN {}
          ELSE StartedLeaves(s, "UNDEFINED_FACT"))

\* the sibling lists of call s whose tier step threw for want of an engine
TypeErrorLists(s) ==
    {n \in ListsOf(s) : \E k \in DOMAIN run[s].list[n].agg : run[s].list[n].agg[k] = "TYPE_ERROR"}

\* C6: when a leaf evaluation fails with an error other than a tolerated
\* undefined-fact error, at any depth and in any tier, the leaf is never given a
\* result, setResult is never called, no listener is notified, no RuleResult is
\* returned and the call fails with the error of such a leaf.
C6_FatalErrorAborts ==
    \A s \in Evaluating :
        (FatalLeaves(s) # {} \/ TypeErrorLists(s) # {}) =>
            /\ \A c \in FatalLeaves(s) :
                  /\ run[s].node[c] \in {"pending", "rejected"}
                  /\ run[s].nodeVal[c] = "null"
            /\ run[s].ruleResult = [result |-> "undefined", setResultCalls |-> 0]
            /\ run[s].emits = [success |-> 0, failure |-> 0]
            /\ run[s].notified = [success |-> 0, failure |-> 0]
            /\ run[s].status \in {"running", "failed"}
            /\ Quiescent(s) => run[s].status = "failed"
            /\ run[s].status = "failed" =>
                  \/ run[s].error = "TYPE_ERROR" /\ TypeErrorLists(s) # {}
                  \/ \E c \in FatalLeaves(s) :
                        /\ run[s].node[c] = "rejected"
                        /\ run[s].error = run[s].almanac[Tree[c].fact[1]]

\* an error of a leaf of the nested any made the call fail with it, although the
\* engine allows undefined facts
C6_Witness ==
    /\ run["c1"].status = "failed"
    /\ Tree[Root].all = <<2, 5>>
    /\ engine # Undefined
    /\ engine[1].allowUndefinedFacts
    /\ run["c1"].list[2].orderedSets = << <<3, 4>> >>
    /\ run["c1"].node[4] = "rejected"
    /\ run["c1"].error = "ERROR"

\* C7: a call sets the result of its RuleResult at most once and emits at most once,
\* never before the root aggregate is final; a call that completes has set the result
\* once, to the root aggregate, and has notified once the listeners of one event:
\* success if and only if the root aggregate is true, otherwise failure.
C7_OneNotification ==
    \A s \in Evaluating :
        LET r == run[s]
            rootTrue == r.list[Root].val = "true"
        IN  /\ r.ruleResult.setResultCalls <= 1
            /\ r.emits.success + r.emits.failure <= 1
            /\ (r.ruleResult.setResultCalls > 0 \/ r.emits.success + r.emits.failure > 0) =>
                  /\ r.list[Root].phase = "done"
                  /\ r.ruleResult.result = r.list[Root].val
            /\ r.status = "returned" =>
                  /\ r.ruleResult.setResultCalls = 1
                  /\ r.emits = [success |-> IF rootTrue THEN 1 ELSE 0,
                                failure |-> IF rootTrue THEN 0 ELSE 1]
                  /\ r.notified = [success |-> IF rootTrue THEN listeners.success ELSE 0,
                                   failure |-> IF rootTrue THEN 0 ELSE listeners.failure]

\* a call returned false and its failure listener was notified once
C7_Witness ==
    /\ run["c1"].status = "returned"
    /\ run["c1"].ruleResult = [result |-> "false", setResultCalls |-> 1]
    /\ listeners.failure > 0
    /\ run["c1"].notified = [success |-> 0, failure |-> 1]

\* the calls whose root aggregate resolved and that have ended
EndedAfterRoot(s) ==
    /\ s \in Evaluating
    /\ run[s].list[Root].phase = "done"
    /\ run[s].status # "running"

\* C8 as stated: once the root aggregate has resolved, the caller receives the
\* RuleResult whatever the listeners do.
C8_ListenerOutcomeIgnored ==
    \A s \in Calls : EndedAfterRoot(s) => run[s].status = "returned"

\* C8, amended: once the root aggregate has resolved, the caller receives the
\* RuleResult if and only if no notified listener throws; a listener that throws
\* makes the call fail with the listener's error, after setResult was called.
C8_ListenerErrorFailsCall ==
    \A s \in Calls : EndedAfterRoot(s) =>
        /\ run[s].status = "returned" <=> run[s].threw = 0
        /\ run[s].threw # 0 =>
              /\ run[s].status = "failed"
              /\ run[s].error = "LISTENER_ERROR"
              /\ run[s].ruleResult.setResultCalls = 1
        /\ listeners[IF run[s].list[Root].val = "true" THEN "success" ELSE "failure"] = 0
              => run[s].status = "returned"

\* the root aggregate was true and the success listener threw: the call failed
C8_Witness ==
    /\ run["c1"].status = "failed"
    /\ run["c1"].ruleResult = [result |-> "true", setResultCalls |-> 1]
    /\ run["c1"].threw = 1
    /\ run["c1"].error = "LISTENER_ERROR"

(***************************************************************************)
(* Properties of the configuration, under SpecConfig.                      *)
(***************************************************************************)
\* the two ways of passing the integer n: the number and its decimal string
IntegerArgs(n) == {NumberArg(Num(n)), StringArg(NumberToString(Num(n)))}

\* C9: setPriority(p) stores p and returns the Rule for every integer priority
\* p > 0; for every p <= 0 it fails and the stored priority is unchanged.
C9_SetPriority ==
    lastCall.op = "setPriority" =>
        \A n \in (0 - 2) .. 12 :
            lastCall.arg \in IntegerArgs(n) =>
                IF n > 0
                THEN lastCall.error = "none" /\ priority = Num(n)
                ELSE lastCall.error # "none" /\ priority = lastCall.before

\* setPriority("12") replaced the priority 3 by 12
C9_Witness ==
    /\ lastCall.op = "setPriority"
    /\ lastCall.arg = StringArg(<<"1", "2">>)
    /\ lastCall.error = "none"
    /\ lastCall.before = Num(3)
    /\ priority = Num(12)

\* C10: setConditions succeeds only for a definition whose root has exactly one of
\* the keys all / any, a definition with neither fails and leaves the stored
\* conditions unchanged, and the stored root is all xor any in every state.
C10_RootExactlyOneKey ==
    /\ lastCall.op = "setConditions" =>
          LET root == lastCall.arg[Root]
          IN  /\ lastCall.error = "none" => (root.hasAll # root.hasAny)
              /\ (~root.hasAll /\ ~root.hasAny) =>
                    (lastCall.error # "none" /\ conditions = lastCall.before)
    /\ conditions # Undefined => (Tree[Root].hasAll # Tree[Root].hasAny)

(***************************************************************************)
(* Properties of toJSON.                                                   *)
(***************************************************************************)
\* C11: a Rule constructed from the output of toJSON, taken as text or as the
\* structured value, has the condition tree, the event and the priority of
\* the Rule that was serialized.
C11_RoundTrip ==
    lastCall.op = "toJSON" =>
        /\ ~lastCall.rebuilt.threw
        /\ lastCall.rebuilt.conditions = conditions
        /\ lastCall.rebuilt.event = event
        /\ lastCall.rebuilt.priority = priority

(***************************************************************************)
(* Properties of empty lists, annotations and failures.                    *)
(***************************************************************************)
\* C12: an empty sibling list evaluates to true under all and under any, at the
\* root and in a nested boolean node, without a tier and so without a fact being
\* resolved for it; a root with an empty list ends with result true and one
\* success notification.
C12_EmptyListIsTrue ==
    \A s \in Evaluating : \A n \in ListsOf(s) :
        Siblings(n) = << >> =>
            /\ run[s].list[n].phase = "done"
            /\ run[s].list[n].val = "true"
            /\ run[s].list[n].orderedSets = << >>
            /\ (n # Root /\ run[s].node[n] = "resolved")
                   => (run[s].nodeVal[n] = "true" /\ Tree[n].result = "true")
            /\ (n = Root /\ run[s].status # "running")
                   => /\ run[s].ruleResult.result = "true"
                      /\ run[s].emits = [success |-> 1, failure |-> 0]
                      /\ \A c \in DOMAIN run[s].node : run[s].node[c] = "idle"

\* any: [] at the root returned true and notified the success listener
C12_Witness ==
    /\ run["c1"].status = "returned"
    /\ Tree[Root].hasAny /\ Tree[Root].any = << >>
    /\ run["c1"].ruleResult.result = "true"
    /\ run["c1"].notified.success = 1

\* the leaves of call s whose fact resolution failed with the undefined-fact
\* error and was turned into false
SwallowedLeaves(s) ==
    {c \in DOMAIN run[s].node :
        /\ ~IsBooleanOperator(Tree[c])
        /\ run[s].node[c] = "resolved"
        /\ run[s].almanac[Tree[c].fact[1]] = "UNDEFINED_FACT"}

\* C13: with allowUndefinedFacts set, a leaf whose fact resolution failed with the
\* undefined-fact error carries the annotation result = false once the evaluation
\* has completed, whatever annotation an earlier evaluation left on it.
C13_UndefinedFactAnnotatedFalse ==
    \A s \in Evaluating :
        (run[s].status = "returned" /\ engine # Undefined /\ engine[1].allowUndefinedFacts)
            => \A c \in SwallowedLeaves(s) : Tree[c].result = "false"

(***************************************************************************)
(* Properties of prioritizeConditions.                                     *)
(***************************************************************************)
\* the priority the registry has for the fact of condition c, if any
RegistryPriority(c) ==
    IF engine # Undefined /\ c.fact # Undefined /\ engine[1].facts[c.fact[1]] # Undefined
    THEN Some(engine[1].facts[c.fact[1]][1].priority)
    ELSE Undefined

\* explicit priority, else the registry's, else 1
ExplicitFirst(c) ==
    IF c.priority # Undefined THEN c.priority[1]
    ELSE IF RegistryPriority(c) # Undefined THEN RegistryPriority(c)[1]
    ELSE 1

\* the same, an explicit priority of 0 counting as none
NonZeroExplicitFirst(c) ==
    IF c.priority # Undefined /\ c.priority[1] # 0 THEN c.priority[1]
    ELSE IF RegistryPriority(c) # Undefined THEN RegistryPriority(c)[1]
    ELSE 1

\* the conditions filed under priority p by the call just made
FiledUnder(p) ==
    IF p \in DOMAIN lastCall.factSets
    THEN {lastCall.factSets[p][i] : i \in DOMAIN lastCall.factSets[p]}
    ELSE {}

Position(conds, c) == CHOOSE i \in DOMAIN conds : conds[i] = c

\* the places of the output that hold condition c
Places(tiers, c) ==
    {<<k, j>> \in (DOMAIN tiers) \X (1 .. MaxSiblings + 1) :
        j \in DOMAIN tiers[k] /\ tiers[k][j] = c}

\* C15: the tiers prioritizeConditions returns hold every input condition exactly
\* once and nothing else, the conditions of a tier have the same effective
\* priority, the tiers come in strictly descending numeric order of that priority
\* (10 before 9 before 2), and inside a tier the conditions keep their input order.
C15_TiersPartition ==
    lastCall.op = "prioritizeConditions" =>
        LET conds == lastCall.arg
            tiers == lastCall.result
            Of(c) == NonZeroExplicitFirst(Tree[c])
        IN  /\ \A i \in DOMAIN conds : Cardinality(Places(tiers, conds[i])) = 1
            /\ \A k \in DOMAIN tiers :
                  /\ tiers[k] # << >>
                  /\ \A j \in DOMAIN tiers[k] : \E i \in DOMAIN conds : conds[i] = tiers[k][j]
                  /\ \A j \in DOMAIN tiers[k] : Of(tiers[k][j]) = Of(tiers[k][1])
                  /\ \A j \in DOMAIN tiers[k] : \A j2 \in DOMAIN tiers[k] :
                        j < j2 => Position(conds, tiers[k][j]) < Position(conds, tiers[k][j2])
            /\ \A k \in DOMAIN tiers : \A k2 \in DOMAIN tiers :
                  k < k2 => Of(tiers[k][1]) > Of(tiers[k2][1])

\* siblings given with priorities 2, 10 and 9 came out as the tiers of 10, 9 and 2
C15_Witness ==
    /\ lastCall.op = "prioritizeConditions"
    /\ Len(lastCall.arg) = 3
    /\ Tree[2].priority = Some(2) /\ Tree[3].priority = Some(10) /\ Tree[4].priority = Some(9)
    /\ lastCall.result = << <<3>>, <<4>>, <<2>> >>

(***************************************************************************)
(* Properties of failures, overlapping calls and annotations.              *)
(***************************************************************************)
\* condition c of call s failed fatally, or a condition below it did
Failed(s, c) ==
    \E d \in {c} \cup Descendants(c) :
        run[s].node[d] = "rejected" \/ run[s].list[d].phase = "failed"

\* C16: once a condition of tier k of a sibling list has failed fatally, itself or
\* through a condition below it, no condition of a later tier of that list is ever
\* started and no later tier step computes or skips anything; as this holds for the
\* list of every ancestor too, no later tier of an enclosing list is started either.
C16_NoTierAfterFailure ==
    \A s \in Evaluating : \A n \in ListsOf(s) :
        \A k \in DOMAIN run[s].list[n].orderedSets :
            (\/ \E c \in TierMembers(s, n, k) : Failed(s, c)
             \/ run[s].list[n].phase = "failed" /\ run[s].list[n].k = k)
                => \A j \in DOMAIN run[s].list[n].orderedSets :
                      j > k => /\ run[s].list[n].agg[j] = "none"
                               /\ \A b \in TierMembers(s, n, j) :
                                     /\ ~Started(s, b)
                                     /\ \A d \in Descendants(b) : ~Started(s, d)

\* in the nested rule a leaf of the inner any failed; the call failed and the
\* later tier of the root list, leaf 5, was never started
C16_Witness ==
    /\ run["c1"].status = "failed"
    /\ run["c1"].list[Root].orderedSets = << <<2>>, <<5>> >>
    /\ run["c1"].node[3] = "rejected"
    /\ run["c1"].node[2] = "rejected"
    /\ run["c1"].list[Root].agg = <<"ERROR", "none">>
    /\ run["c1"].node[5] = "idle"

\* C17: in every state of a Rule, after its construction and after any setPriority
\* call, whatever the argument (a number, a numeric string, a non-numeric string,
\* no priority in the definition), the stored priority is an integer >= 1.
C17_PriorityIsIntegerAtLeastOne ==
    /\ ~priority.nan
    /\ priority.tenths % 10 = 0
    /\ priority.tenths >= 10

\* What one evaluation, run alone, comes to: the tiers of a list in turn, every
\* member of a tier, until a tier fails or decides the list.  val is "true",
\* "false" or "fails"; started is the set of conditions evaluated.
RECURSIVE AloneCondition(_, _, _, _)
RECURSIVE AloneTiers(_, _, _, _, _, _)
AloneList(tree, eng, almanac, conds, operator) ==
    IF conds = << >> THEN [val |-> "true", started |-> {}]
    ELSE AloneTiers(tree, eng, almanac, PrioritizeConditions(Some(eng), tree, conds),
                    operator, 1)

AloneCondition(tree, eng, almanac, c) ==
    IF IsBooleanOperator(tree[c])
    THEN LET l == AloneList(tree, eng, almanac, SubConditions(tree[c]),
                            Operator(tree[c])[1])
         IN  [val |-> l.val, started |-> l.started \cup {c}]
    ELSE LET v == almanac[tree[c].fact[1]]
         IN  [val |-> IF v \in FactValues THEN Bool(v = tree[c].value)
                      ELSE IF v = "UNDEFINED_FACT" /\ eng.allowUndefinedFacts THEN "false"
                      ELSE "fails",
              started |-> {c}]

AloneTiers(tree, eng, almanac, tiers, operator, k) ==
    LET member == [i \in DOMAIN tiers[k] |-> AloneCondition(tree, eng, almanac, tiers[k][i])]
        started == UNION {member[i].started : i \in DOMAIN member}
        val == IF \E i \in DOMAIN member : member[i].val = "fails" THEN "fails"
               ELSE IF operator = "all"
               THEN Bool(\A i \in DOMAIN member : member[i].val = "true")
               ELSE Bool(\E i \in DOMAIN member : member[i].val = "true")
        decided == \/ val = "fails"
                   \/ k = Len(tiers)
                   \/ operator = "all" /\ val = "false"
                   \/ operator = "any" /\ val = "true"
    IN  IF decided THEN [val |-> val, started |-> started]
        ELSE LET rest == AloneTiers(tree, eng, almanac, tiers, operator, k + 1)
             IN  [val |-> rest.val, started |-> started \cup rest.started]

\* the rule evaluated alone against the almanac of call s
Alone(s) ==
    AloneList(Tree, engine[1], run[s].almanac, Siblings(Root),
              IF Tree[Root].hasAny THEN "any" ELSE "all")

\* C18: when two calls of evaluate on the same Rule overlap, each with its own
\* almanac, the result each call sets on its RuleResult and the event name it
\* emits are those of the same call made alone, in every interleaving; a call
\* fails only if it fails alone.
C18_OverlapKeepsResults ==
    \A s \in Calls :
        /\ run[s].ruleResult.setResultCalls > 0
              => /\ run[s].ruleResult.result = Alone(s).val
                 /\ run[s].emits = [success |-> IF Alone(s).val = "true" THEN 1 ELSE 0,
                                    failure |-> IF Alone(s).val = "true" THEN 0 ELSE 1]
        /\ (run[s].status = "failed" /\ run[s].error # "LISTENER_ERROR")
              => Alone(s).val = "fails"

\* both calls returned, with different results, and the annotation the second
\* call left on a leaf is not the value the first call got for it
C18_Witness ==
    /\ run["c1"].status = "returned" /\ run["c2"].status = "returned"
    /\ run["c1"].ruleResult.result = "true"
    /\ run["c2"].ruleResult.result = "false"
    /\ \E c \in DOMAIN Tree :
          /\ run["c1"].node[c] = "resolved" /\ run["c2"].node[c] = "resolved"
          /\ run["c1"].nodeVal[c] = "true"
          /\ Tree[c].result = "false"

\* C19: a step changes the annotations of a node only if it is the callback of that
\* node's own evaluation in some call: a node of a tier passed by, and every node
\* below it, is never started and so keeps result and factResult as they were
\* before the call, the values of an earlier evaluation included.
C19_WritesOnlyEvaluated ==
    [][conditions # Undefined =>
          /\ conditions' # Undefined
          /\ DOMAIN Tree' = DOMAIN Tree
          /\ \A n \in DOMAIN Tree :
                Tree'[n] # Tree[n] =>
                    \E s \in Calls : /\ n \in DOMAIN run[s].node
                                     /\ run[s].node[n] = "pending"
                                     /\ run'[s].node[n] = "resolved"]_vars

\* a second evaluation returned true from its first tier; the leaves of the tiers
\* it passed by still carry the annotations of the first evaluation
C19_Witness ==
    /\ evalCount = 2
    /\ run["c1"].status = "returned"
    /\ run["c1"].list[Root].agg = <<"true", "skipped", "skipped">>
    /\ \E n \in DOMAIN Tree :
          /\ run["c1"].node[n] = "idle"
          /\ Tree[n].result = "false"
          /\ Tree[n].factResult \in FactValues

\* the conditions call s has started, and the facts it has asked the almanac for
StartedConditions(s) == {c \in DOMAIN run[s].node : Started(s, c)}
FactsResolved(s) ==
    {Tree[c].fact[1] : c \in {d \in StartedConditions(s) : ~IsBooleanOperator(Tree[d])}}

\* C20: for a rule, an engine and an almanac on which no resolution fails, the
\* result, the event name emitted and the set of facts resolved are a function of
\* the three: whatever the order in which the conditions in flight resolve, a call
\* never starts a condition the tier-by-tier evaluation does not evaluate, and once
\* it has finished it has the result, the event and the facts of that evaluation.
C20_SchedulingDeterminism ==
    \A s \in Evaluating :
        (engine # Undefined /\ NoResolutionFails(run[s].almanac)) =>
            /\ StartedConditions(s) \subseteq Alone(s).started
            /\ Quiescent(s) =>
                  /\ run[s].ruleResult.result = Alone(s).val
                  /\ run[s].emits = [success |-> IF Alone(s).val = "true" THEN 1 ELSE 0,
                                     failure |-> IF Alone(s).val = "true" THEN 0 ELSE 1]
                  /\ StartedConditions(s) = Alone(s).started
                  /\ FactsResolved(s) =
                        {Tree[c].fact[1] :
                            c \in {d \in Alone(s).started : ~IsBooleanOperator(Tree[d])}}

\* a call returned after a tier of two conditions in flight together, the second
\* of the two deciding the result
C20_Witness ==
    /\ run["c1"].status = "returned"
    /\ NoResolutionFails(run["c1"].almanac)
    /\ \E n \in ListsOf("c1") : \E k \in DOMAIN run["c1"].list[n].orderedSets :
          /\ Len(run["c1"].list[n].orderedSets[k]) = 2
          /\ run["c1"].list[n].operator = "any"
          /\ run["c1"].nodeVal[run["c1"].list[n].orderedSets[k][1]] = "false"
          /\ run["c1"].nodeVal[run["c1"].list[n].orderedSets[k][2]] = "true"
          /\ run["c1"].list[n].val = "true"

====
